---- MODULE Spec2Model ----
(***************************************************************************)
(* State-machine model of src/src/blockchain.js (class Blockchain): an     *)
(* in-memory chain of blocks, the challenge / submit registration flow and *)
(* chain validation.                                                       *)
(*                                                                         *)
(* JavaScript runs every synchronous stretch of code to completion, so one *)
(* action is one such stretch: a whole call of a method without an await   *)
(* that suspends before its effects, or the part of validateChain between  *)
(* two awaits.                                                             *)
(*                                                                         *)
(* Representation.                                                         *)
(*   - this.chain is a JavaScript array: the sequence chain, whose element *)
(*     at JavaScript index i is chain[i + 1].                              *)
(*   - a block object is a record with the fields of block.js in their     *)
(*     declaration order: hash, height, body, time, previousBlockHash.     *)
(*   - null is the empty tuple Null; a digest is a non-empty tuple.        *)
(*   - a message "a:t:startRegistry" is the tuple of its ':'-separated     *)
(*     parts, which is what message.split(':') yields.                     *)
(*   - errorLog holds references to block objects; a block object never    *)
(*     leaves its array slot, so a reference is the slot's index.          *)
(***************************************************************************)
EXTENDS Integers, Sequences, FiniteSets, TLC

(***************************************************************************)
(* Bounds of the model.                                                    *)
(***************************************************************************)
MaxChain == 3          \* longest chain built (genesis included)
MaxTicks == 1          \* number of clock advances
MaxIssued == 1         \* challenge tokens held by callers at a time
MaxTampers == 2        \* out-of-band mutations of stored blocks

(***************************************************************************)
(* Input domains.                                                          *)
(***************************************************************************)
Addresses == {"W1", "W2"}
Stars == {"Polaris", "Sirius"}
StartMs == 1000 * 1000               \* wall clock at start, milliseconds
TickMs == {300999, 301000}            \* clock advances, milliseconds
FutureSeconds == 5 * 1000            \* a timestamp ahead of every clock value

ALLOWED_TIME_TO_SIGN_SECONDS == 300

Null == <<>>
Marker == "startRegistry"

VARIABLES
    clockMs,     \* new Date().getTime()
    ticks,       \* number of clock advances so far
    chain,       \* this.chain
    height,      \* this.height
    initPc,      \* position of the constructor / initializeChain
    issued,      \* tokens returned by requestMessageOwnershipVerification
    vc,          \* activation record of a running validateChain
    tampers,     \* number of out-of-band mutations so far
    last         \* the last call made, with its arguments and its result

vars == <<clockMs, ticks, chain, height, initPc, issued, vc, tampers, last>>

(***************************************************************************)
(* JavaScript array helpers.                                               *)
(***************************************************************************)
Undefined == [undefined |-> TRUE]

\* arr[idx] = v : overwrite, append, or leave holes below idx
RECURSIVE ArraySet(_, _, _)
ArraySet(arr, idx, v) ==
    IF idx < 0 THEN arr
    ELSE IF idx < Len(arr) THEN [arr EXCEPT ![idx + 1] = v]
    ELSE IF idx = Len(arr) THEN Append(arr, v)
    ELSE ArraySet(Append(arr, Undefined), idx, v)

\* arr.filter(pred): the indices 0..Len-1 of the elements kept, in order
RECURSIVE FilterIdx(_, _, _)
FilterIdx(arr, keep, i) ==
    IF i >= Len(arr) THEN <<>>
    ELSE IF keep[i + 1] THEN <<i>> \o FilterIdx(arr, keep, i + 1)
    ELSE FilterIdx(arr, keep, i + 1)

(***************************************************************************)
(* block.js (not among the sources; modelled from spec.md 3 and 4.2).      *)
(***************************************************************************)
\* Buffer(JSON.stringify(data)).toString('hex')
EncodeBody(data) == <<"hex", data>>

\* new BlockClass.Block(data)
NewBlock(data) ==
    [hash |-> Null, height |-> 0, body |-> EncodeBody(data), time |-> 0,
     previousBlockHash |-> Null]

GenesisData == [data |-> "Genesis Block"]

\* block.getBData(): the decoded body, null for the genesis block
getBData(block) ==
    IF block.height = 0 THEN Null ELSE block.body[2]

(***************************************************************************)
(* Helpers of Blockchain.                                                  *)
(***************************************************************************)
\* new Date().getTime().toString().slice(0, -3): the decimal string without
\* its last three digits, read as a number where it is used
_currentTimestamp(ms) == ms \div 1000

_isGenesis(h) == h = -1

\* JSON.stringify(block): the fields in declaration order
JSONstringify(block) ==
    <<block.hash, block.height, block.body, block.time, block.previousBlockHash>>

\* SHA256(...).toString(CryptoJS.enc.Hex): collision-free digest
_generateHash(block) == <<"sha256", JSONstringify(block)>>

\* block.validate(): recompute the digest over the current field values (the
\* hash field as it was when the digest was taken) and compare
validate(block) ==
    block.hash = _generateHash([block EXCEPT !.hash = Null])

_errorMessage(message) == [isValid |-> FALSE, error |-> message]

_validBlock(block) == [isValid |-> TRUE, block |-> block]

\* mutant: the link to the tail is never written
_addBlock_noLink(ch, h, block, ms) ==
    LET h1 == h + 1
        b2 == [block EXCEPT !.height = h1]
        b3 == [b2 EXCEPT !.time = _currentTimestamp(ms)]
        b4 == [b3 EXCEPT !.hash = _generateHash(b3)]
    IN  [chain |-> ArraySet(ch, h1, b4), height |-> h1, block |-> b4]

\* mutant: block.height = this.height++
_addBlock_postIncrement(ch, h, block, ms) ==
    LET b1 == IF ~_isGenesis(h)
              THEN [block EXCEPT !.previousBlockHash = ch[h + 1].hash]
              ELSE block
        h1 == h + 1
        b2 == [b1 EXCEPT !.height = h]
        b3 == [b2 EXCEPT !.time = _currentTimestamp(ms)]
        b4 == [b3 EXCEPT !.hash = _generateHash(b3)]
    IN  [chain |-> ArraySet(ch, h1, b4), height |-> h1, block |-> b4]

\* mutant: the digest is taken before the timestamp is written
_addBlock_hashBeforeTime(ch, h, block, ms) ==
    LET b1 == IF ~_isGenesis(h)
              THEN [block EXCEPT !.previousBlockHash = ch[h + 1].hash]
              ELSE block
        h1 == h + 1
        b2 == [b1 EXCEPT !.height = h1]
        b3 == [b2 EXCEPT !.hash = _generateHash(b2)]
        b4 == [b3 EXCEPT !.time = _currentTimestamp(ms)]
    IN  [chain |-> ArraySet(ch, h1, b4), height |-> h1, block |-> b4]

\* mutant: this.height is read but never written
_addBlock_noHeightUpdate(ch, h, block, ms) ==
    LET b1 == IF ~_isGenesis(h)
              THEN [block EXCEPT !.previousBlockHash = ch[h + 1].hash]
              ELSE block
        h1 == h + 1
        b2 == [b1 EXCEPT !.height = h1]
        b3 == [b2 EXCEPT !.time = _currentTimestamp(ms)]
        b4 == [b3 EXCEPT !.hash = _generateHash(b3)]
    IN  [chain |-> ArraySet(ch, h1, b4), height |-> h, block |-> b4]

\* mutant: the digest is computed but not written to the block
_addBlock_noHash(ch, h, block, ms) ==
    LET b1 == IF ~_isGenesis(h)
              THEN [block EXCEPT !.previousBlockHash = ch[h + 1].hash]
              ELSE block
        h1 == h + 1
        b2 == [b1 EXCEPT !.height = h1]
        b3 == [b2 EXCEPT !.time = _currentTimestamp(ms)]
    IN  [chain |-> ArraySet(ch, h1, b3), height |-> h1, block |-> b3]

\* _addBlock(block) at wall clock ms: the new chain, height and stored block
_addBlock(ch, h, block, ms) ==
    LET b1 == IF ~_isGenesis(h)
              THEN [block EXCEPT !.previousBlockHash = ch[h + 1].hash]
              ELSE block
        h1 == h + 1
        b2 == [b1 EXCEPT !.height = h1]
        b3 == [b2 EXCEPT !.time = _currentTimestamp(ms)]
        b4 == [b3 EXCEPT !.hash = _generateHash(b3)]
    IN  [chain |-> ArraySet(ch, h1, b4), height |-> h1, block |-> b4]

\* mutant: the genesis block is added only after a suspension
initializeChain_deferred(ch, h, ms) == [chain |-> ch, height |-> h]

\* initializeChain() up to its first suspension: _addBlock has no await, so
\* its whole body runs inside the call, before the await suspends
initializeChain(ch, h, ms) ==
    IF _isGenesis(h)
    THEN LET r == _addBlock(ch, h, NewBlock(GenesisData), ms)
         IN  [chain |-> r.chain, height |-> r.height]
    ELSE [chain |-> ch, height |-> h]

\* indices whose block does not match its own digest
BadBlocks(ch) == {k \in 0..(Len(ch) - 1) : ~validate(ch[k + 1])}

\* indices whose block does not carry the digest of the block before it
Unlinked(ch) ==
    {k \in 1..(Len(ch) - 1) : ch[k + 1].previousBlockHash # ch[k].hash}

\* the record kept of the moment validateChain was called
NoSnap == [bad |-> {}, unlinked |-> {}, atomic |-> <<>>]

\* no validateChain is running
IdleVc ==
    [pc |-> "idle", i |-> 0, isValid |-> TRUE, errorLog |-> <<>>,
     snap |-> NoSnap]

(***************************************************************************)
(* Actions.                                                                *)
(***************************************************************************)
Init ==
    /\ clockMs = StartMs
    /\ ticks = 0
    /\ chain = <<>>
    /\ height = -1
    /\ initPc = "new"
    /\ issued = {}
    /\ vc = IdleVc
    /\ tampers = 0
    /\ last = [op |-> "none"]

\* the constructor has returned: callers hold the object
Constructed == initPc = "constructed"

\* the wall clock advances
Tick ==
    /\ Constructed
    /\ ticks < MaxTicks
    /\ \E d \in TickMs : clockMs' = clockMs + d
    /\ ticks' = ticks + 1
    /\ UNCHANGED <<chain, height, initPc, issued, vc, tampers, last>>

\* new Blockchain(): the fields, then initializeChain() up to its await (the
\* continuation after that await is empty)
Constructor ==
    /\ initPc = "new"
    /\ LET r == initializeChain(<<>>, -1, clockMs)
       IN  /\ chain' = r.chain
           /\ height' = r.height
    /\ initPc' = "constructed"
    /\ last' = [op |-> "constructor"]
    /\ UNCHANGED <<clockMs, ticks, issued, vc, tampers>>

(***************************************************************************)
(* The challenge token and the signature primitive.                        *)
(***************************************************************************)
\* [address, this._currentTimestamp(), 'startRegistry'].join(':')
requestMessageOwnershipVerification(address, ms) ==
    <<address, _currentTimestamp(ms), Marker>>

\* a message that is not of the form a:t:m
Garbage == <<"garbage">>

\* parseInt(message.split(':')[1]): NaN when the part is missing
parseTimestamp(message) ==
    IF Len(message) >= 2
    THEN [nan |-> FALSE, val |-> message[2]]
    ELSE [nan |-> TRUE, val |-> 0]

\* mutant: < in place of <=
_isValidTime_strict(timestamp, ms) ==
    IF timestamp.nan THEN FALSE
    ELSE (_currentTimestamp(ms) - timestamp.val) < ALLOWED_TIME_TO_SIGN_SECONDS

\* mutant: the operands of the subtraction are swapped
_isValidTime_reversed(timestamp, ms) ==
    IF timestamp.nan THEN FALSE
    ELSE (timestamp.val - _currentTimestamp(ms)) <= ALLOWED_TIME_TO_SIGN_SECONDS

\* mutant: a timestamp ahead of the clock is refused
_isValidTime_notFuture(timestamp, ms) ==
    IF timestamp.nan THEN FALSE
    ELSE /\ (_currentTimestamp(ms) - timestamp.val) <= ALLOWED_TIME_TO_SIGN_SECONDS
         /\ (_currentTimestamp(ms) - timestamp.val) >= 0

\* (this._currentTimestamp() - timestamp) <= 300; a comparison with NaN is false
_isValidTime(timestamp, ms) ==
    IF timestamp.nan THEN FALSE
    ELSE (_currentTimestamp(ms) - timestamp.val) <= ALLOWED_TIME_TO_SIGN_SECONDS

\* what the holder of the key of signer produces for msg
Sign(signer, msg) == [malformed |-> FALSE, signer |-> signer, msg |-> msg]

\* a string that is not a signature at all
MalformedSignature == [malformed |-> TRUE, signer |-> "none", msg |-> Garbage]

\* bitcoinMessage.verify(message, address, signature): true, false, or an
\* exception for a string it cannot decode
bitcoinMessageVerify(message, address, signature) ==
    IF signature.malformed THEN "throws"
    ELSE IF signature.signer = address /\ signature.msg = message THEN "true"
    ELSE "false"

\* mutant: the verdict of the primitive is ignored
_isValidSignature_always(message, address, signature) ==
    IF bitcoinMessageVerify(message, address, signature) = "throws"
    THEN "throws" ELSE "true"

_isValidSignature(message, address, signature) ==
    bitcoinMessageVerify(message, address, signature)

\* the result of an async call whose body threw: a rejected promise
RejectedPromise == [isValid |-> FALSE, error |-> "uncaught exception"]

\* mutant: the signature is checked before the time window
submitStar_signatureFirst(ch, h, address, message, signature, star, ms) ==
    LET v == _isValidSignature(message, address, signature)
    IN  IF v = "throws"
        THEN [chain |-> ch, height |-> h, result |-> RejectedPromise,
              verifyCalled |-> TRUE]
        ELSE IF v = "false"
        THEN [chain |-> ch, height |-> h,
              result |-> _errorMessage("Invalid signature!"),
              verifyCalled |-> TRUE]
        ELSE IF ~_isValidTime(parseTimestamp(message), ms)
        THEN [chain |-> ch, height |-> h,
              result |-> _errorMessage("Time has expired!"),
              verifyCalled |-> TRUE]
        ELSE LET r == _addBlock(ch, h, NewBlock([owner |-> address,
                                                 star |-> star]), ms)
             IN  [chain |-> r.chain, height |-> r.height,
                  result |-> _validBlock(r.block), verifyCalled |-> TRUE]

\* mutant: the block is added before the signature is checked
submitStar_addBeforeCheck(ch, h, address, message, signature, star, ms) ==
    IF ~_isValidTime(parseTimestamp(message), ms)
    THEN [chain |-> ch, height |-> h,
          result |-> _errorMessage("Time has expired!"),
          verifyCalled |-> FALSE]
    ELSE LET r == _addBlock(ch, h, NewBlock([owner |-> address,
                                             star |-> star]), ms)
             v == _isValidSignature(message, address, signature)
         IN  [chain |-> r.chain, height |-> r.height,
              result |-> IF v = "throws" THEN RejectedPromise
                         ELSE IF v = "false"
                         THEN _errorMessage("Invalid signature!")
                         ELSE _validBlock(r.block),
              verifyCalled |-> TRUE]

\* mutant: an address that owns a block is refused
submitStar_ownerOnce(ch, h, address, message, signature, star, ms) ==
    IF ~_isValidTime(parseTimestamp(message), ms)
    THEN [chain |-> ch, height |-> h,
          result |-> _errorMessage("Time has expired!"),
          verifyCalled |-> FALSE]
    ELSE LET v == _isValidSignature(message, address, signature)
         IN  IF v = "throws"
             THEN [chain |-> ch, height |-> h, result |-> RejectedPromise,
                   verifyCalled |-> TRUE]
             ELSE IF v = "false" \/ \E j \in 2..Len(ch) :
                                      ch[j].body[2].owner = address
             THEN [chain |-> ch, height |-> h,
                   result |-> _errorMessage("Invalid signature!"),
                   verifyCalled |-> TRUE]
             ELSE LET r == _addBlock(ch, h, NewBlock([owner |-> address,
                                                      star |-> star]), ms)
                  IN  [chain |-> r.chain, height |-> r.height,
                       result |-> _validBlock(r.block), verifyCalled |-> TRUE]

\* mutant: the owner is taken from the token
submitStar_ownerFromToken(ch, h, address, message, signature, star, ms) ==
    IF ~_isValidTime(parseTimestamp(message), ms)
    THEN [chain |-> ch, height |-> h,
          result |-> _errorMessage("Time has expired!"),
          verifyCalled |-> FALSE]
    ELSE LET v == _isValidSignature(message, address, signature)
         IN  IF v = "throws"
             THEN [chain |-> ch, height |-> h, result |-> RejectedPromise,
                   verifyCalled |-> TRUE]
             ELSE IF v = "false"
             THEN [chain |-> ch, height |-> h,
                   result |-> _errorMessage("Invalid signature!"),
                   verifyCalled |-> TRUE]
             ELSE LET r == _addBlock(ch, h, NewBlock([owner |-> message[1],
                                                      star |-> star]), ms)
                  IN  [chain |-> r.chain, height |-> r.height,
                       result |-> _validBlock(r.block), verifyCalled |-> TRUE]

\* submitStar(address, message, signature, star) at wall clock ms: the new
\* chain and height, the value the call settles with, and whether the
\* signature primitive was invoked
submitStar(ch, h, address, message, signature, star, ms) ==
    LET timestamp == parseTimestamp(message)
    IN  IF ~_isValidTime(timestamp, ms)
        THEN [chain |-> ch, height |-> h,
              result |-> _errorMessage("Time has expired!"),
              verifyCalled |-> FALSE]
        ELSE LET v == _isValidSignature(message, address, signature)
             IN  IF v = "throws"
                 THEN [chain |-> ch, height |-> h, result |-> RejectedPromise,
                       verifyCalled |-> TRUE]
                 ELSE IF v = "false"
                 THEN [chain |-> ch, height |-> h,
                       result |-> _errorMessage("Invalid signature!"),
                       verifyCalled |-> TRUE]
                 ELSE LET newBlock == NewBlock([owner |-> address, star |-> star])
                          r == _addBlock(ch, h, newBlock, ms)
                      IN  [chain |-> r.chain, height |-> r.height,
                           result |-> _validBlock(r.block),
                           verifyCalled |-> TRUE]

(***************************************************************************)
(* Lookups.                                                                *)
(***************************************************************************)
\* this.chain.filter(block => block.hash === hash), first element or null
getBlockByHash(ch, hash) ==
    LET found == FilterIdx(ch, [j \in 1..Len(ch) |-> ch[j].hash = hash], 0)
    IN  IF Len(found) > 0 THEN ch[found[1] + 1] ELSE Null

\* self.chain.filter(p => p.height === height)[0], or null
getBlockByHeight(ch, hgt) ==
    LET found == FilterIdx(ch, [j \in 1..Len(ch) |-> ch[j].height = hgt], 0)
    IN  IF Len(found) > 0 THEN ch[found[1] + 1] ELSE Null

\* the forEach of getStarsByWalletAddress from index i on
RECURSIVE starsFrom(_, _, _)
starsFrom(ch, address, i) ==
    IF i >= Len(ch) THEN <<>>
    ELSE LET body == getBData(ch[i + 1])
         IN  IF body # Null /\ body.owner = address
             THEN <<body.star>> \o starsFrom(ch, address, i + 1)
             ELSE starsFrom(ch, address, i + 1)

\* mutant: stars.unshift(body.star)
getStarsByWalletAddress_unshift(ch, address) ==
    LET r == starsFrom(ch, address, 0)
    IN  [n \in 1..Len(r) |-> r[Len(r) + 1 - n]]

getStarsByWalletAddress(ch, address) == starsFrom(ch, address, 0)

(***************************************************************************)
(* validateChain.                                                          *)
(***************************************************************************)
\* a JavaScript value used as a condition
Truthy(v) == v # Null

\* the loop body after `await block.validate()` has resumed with isValid:
\*   if (i > 0 && (!isValid || !(block.previousBlockHash = previousBlock.hash)))
\*       errorLog.push(block);
\* && and || evaluate left to right and stop early, so the assignment runs
\* exactly when i > 0 and isValid
validateChainStep(ch, i, isValid, errorLog) ==
    LET assigns == i > 0 /\ isValid
        ch1 == IF assigns
               THEN [ch EXCEPT ![i + 1].previousBlockHash = ch[i].hash]
               ELSE ch
        failed == i > 0 /\ (~isValid \/ ~Truthy(ch1[i + 1].previousBlockHash))
    IN  [chain |-> ch1,
         errorLog |-> IF failed THEN Append(errorLog, i) ELSE errorLog]

\* the loop head for index i: leave the loop, or call block.validate() and
\* suspend on its promise
validateChainScan(ch, i, errorLog, snap) ==
    IF i < Len(ch)
    THEN [pc |-> "awaiting", i |-> i, isValid |-> validate(ch[i + 1]),
          errorLog |-> errorLog, snap |-> snap]
    ELSE [pc |-> "idle", i |-> 0, isValid |-> TRUE, errorLog |-> errorLog,
          snap |-> snap]

\* validateChain() on ch with nothing running between its awaits: errorLog
RECURSIVE AtomicRun(_, _, _)
AtomicRun(ch, i, errorLog) ==
    IF i >= Len(ch) THEN errorLog
    ELSE LET r == validateChainStep(ch, i, validate(ch[i + 1]), errorLog)
         IN  AtomicRun(r.chain, i + 1, r.errorLog)

\* what is recorded when validateChain is called: the blocks that do not
\* match their digest, the blocks that do not carry the digest of the block
\* before them, and the result of an uninterrupted validateChain
TakeSnap(ch) ==
    [bad |-> BadBlocks(ch), unlinked |-> Unlinked(ch),
     atomic |-> AtomicRun(ch, 0, <<>>)]

(***************************************************************************)
(* Actions of the public operations.                                       *)
(***************************************************************************)
GetChainHeight ==
    /\ Constructed
    /\ last' = [op |-> "getChainHeight", result |-> height]
    /\ UNCHANGED <<clockMs, ticks, chain, height, initPc, issued, vc, tampers>>

RequestChallenge ==
    /\ Constructed
    /\ \E address \in Addresses :
         LET token == requestMessageOwnershipVerification(address, clockMs)
         IN  /\ Cardinality(issued \cup {token}) <= MaxIssued
             /\ issued' = issued \cup {token}
             /\ last' = [op |-> "requestChallenge", address |-> address,
                         result |-> token]
    /\ UNCHANGED <<clockMs, ticks, chain, height, initPc, vc, tampers>>

\* messages a caller can present: the tokens it was given, and forged ones
ForgedMessages == {Garbage, <<"W1", FutureSeconds, Marker>>}

\* signatures a caller can present with message m
SignaturesFor(m) == {Sign(a, m) : a \in Addresses} \cup {MalformedSignature}

\* the call before was this same submitStar call, and it succeeded
SameAsLast(address, message, signature) ==
    /\ last.op = "submitStar"
    /\ last.result.isValid
    /\ last.address = address
    /\ last.message = message
    /\ last.signature = signature

\* one call submitStar(address, message, signature, star); again and during
\* record whether it repeats the call before and whether a validateChain was
\* suspended at its await when it ran
SubmitStar(address, message, signature, star) ==
    /\ Constructed
    /\ LET r == submitStar(chain, height, address, message, signature, star,
                           clockMs)
       IN  /\ Len(r.chain) <= MaxChain
           /\ chain' = r.chain
           /\ height' = r.height
           /\ last' = [op |-> "submitStar", address |-> address,
                       message |-> message, signature |-> signature,
                       result |-> r.result, verifyCalled |-> r.verifyCalled,
                       again |-> SameAsLast(address, message, signature),
                       during |-> vc.pc = "awaiting"]
    /\ UNCHANGED <<clockMs, ticks, initPc, issued, vc, tampers>>

Submit ==
    \E address \in Addresses, message \in issued \cup ForgedMessages,
       star \in Stars :
      \E signature \in SignaturesFor(message) :
        SubmitStar(address, message, signature, star)

\* a digest that no block has
ForgedHash == <<"forged">>

GetBlockByHash ==
    /\ Constructed
    /\ \E hash \in {chain[j].hash : j \in 1..Len(chain)} \cup {ForgedHash} :
         last' = [op |-> "getBlockByHash", hash |-> hash,
                  result |-> getBlockByHash(chain, hash)]
    /\ UNCHANGED <<clockMs, ticks, chain, height, initPc, issued, vc, tampers>>

GetBlockByHeight ==
    /\ Constructed
    /\ \E hgt \in -1..MaxChain :
         last' = [op |-> "getBlockByHeight", height |-> hgt,
                  result |-> getBlockByHeight(chain, hgt)]
    /\ UNCHANGED <<clockMs, ticks, chain, height, initPc, issued, vc, tampers>>

GetStarsByWalletAddress ==
    /\ Constructed
    /\ \E address \in Addresses :
         last' = [op |-> "getStarsByWalletAddress", address |-> address,
                  result |-> getStarsByWalletAddress(chain, address)]
    /\ UNCHANGED <<clockMs, ticks, chain, height, initPc, issued, vc, tampers>>

\* the state after validateChain reached the loop head with activation v.
\* When it returns, last.op = "validateChain" says that the call before was a
\* validateChain too and that no other call was made since it returned; prev
\* is then the result of that call
ValidateContinue(v) ==
    /\ vc' = IF v.pc = "idle" THEN IdleVc ELSE v
    /\ last' = IF v.pc = "idle"
               THEN [op |-> "validateChain", result |-> v.errorLog,
                     bad |-> v.snap.bad, unlinked |-> v.snap.unlinked,
                     atomic |-> v.snap.atomic,
                     prev |-> IF last.op = "validateChain"
                              THEN <<last.result>> ELSE <<>>]
               ELSE last

\* validateChain() is called: errorLog = [], i = 0, first loop head
ValidateStart ==
    /\ Constructed
    /\ vc.pc = "idle"
    /\ ValidateContinue(validateChainScan(chain, 0, <<>>,
                                          TakeSnap(chain)))
    /\ UNCHANGED <<clockMs, ticks, chain, height, initPc, issued, tampers>>

\* the promise of block.validate() is settled: rest of the loop body, i++,
\* next loop head
ValidateResume ==
    /\ vc.pc = "awaiting"
    /\ LET r == validateChainStep(chain, vc.i, vc.isValid, vc.errorLog)
       IN  /\ chain' = r.chain
           /\ ValidateContinue(validateChainScan(r.chain, vc.i + 1, r.errorLog,
                                                 vc.snap))
    /\ UNCHANGED <<clockMs, ticks, height, initPc, issued, tampers>>

(***************************************************************************)
(* Tampering: a stored block object is mutated from outside the class,     *)
(* between two validations.                                                *)
(***************************************************************************)
TamperFields == {"body", "height", "time", "previousBlockHash", "rehash"}

ForgedData == [owner |-> "Mallory", star |-> "Forged"]

TamperBlock(block, field) ==
    CASE field = "body" -> [block EXCEPT !.body = EncodeBody(ForgedData)]
      [] field = "height" -> [block EXCEPT !.height = block.height + 10]
      [] field = "time" -> [block EXCEPT !.time = block.time + 1]
      [] field = "previousBlockHash" ->
             [block EXCEPT !.previousBlockHash = ForgedHash]
      [] field = "rehash" ->
             [block EXCEPT !.hash = _generateHash([block EXCEPT !.hash = Null])]

Tamper ==
    /\ Constructed
    /\ vc.pc = "idle"
    /\ tampers < MaxTampers
    /\ \E k \in 0..(Len(chain) - 1), field \in TamperFields :
         /\ TamperBlock(chain[k + 1], field) # chain[k + 1]
         /\ chain' = [chain EXCEPT ![k + 1] = TamperBlock(chain[k + 1], field)]
         /\ last' = [op |-> "tamper", k |-> k, field |-> field]
    /\ tampers' = tampers + 1
    /\ UNCHANGED <<clockMs, ticks, height, initPc, issued, vc>>

(***************************************************************************)
(* Specifications.                                                         *)
(***************************************************************************)
\* construction and the public operations
Next ==
    \/ Tick
    \/ Constructor
    \/ GetChainHeight
    \/ RequestChallenge
    \/ Submit
    \/ GetBlockByHash
    \/ GetBlockByHeight
    \/ GetStarsByWalletAddress
    \/ ValidateStart
    \/ ValidateResume

Spec == Init /\ [][Next]_vars

\* a ledger that is built, tampered with from outside and validated
NextTamper ==
    \/ Constructor
    \/ Submit
    \/ ValidateStart
    \/ ValidateResume
    \/ Tamper

SpecTamper == Init /\ [][NextTamper]_vars

(***************************************************************************)
(* Properties.                                                             *)
(***************************************************************************)
Range(seq) == {seq[j] : j \in 1..Len(seq)}

Expired == _errorMessage("Time has expired!")

InvalidSignature == _errorMessage("Invalid signature!")

\* this step is the call of submitStar that last' records
SubmitCalled ==
    \E star \in Stars :
      SubmitStar(last'.address, last'.message, last'.signature, star)

\* C1: linkage invariant - after construction and any sequence of public
\* operations, every block from position 1 to height carries as
\* previousBlockHash the hash of the block before it.
C1_Linkage ==
    \A i \in 1..height : chain[i + 1].previousBlockHash = chain[i].hash

C1_Witness ==
    /\ height = 2
    /\ last.op = "validateChain"
    /\ chain[3].previousBlockHash = chain[2].hash

\* C2: position invariant - the block stored at index i has height i; the
\* genesis block has height 0 and each appended block one more than the tail.
C2_Position ==
    \A i \in 0..(Len(chain) - 1) : chain[i + 1].height = i

C2_Witness ==
    /\ Len(chain) = 3
    /\ chain[3].height = 2
    /\ last.op = "submitStar"

\* C3: the ledger is never observably empty - once the constructor has
\* returned the chain holds the genesis block at position 0 with no
\* previousBlockHash and the height is at least 0; right after the constructor
\* the chain is exactly that one block and the height is 0.
C3_NeverEmpty ==
    /\ Constructed =>
         /\ Len(chain) >= 1
         /\ height >= 0
         /\ chain[1].height = 0
         /\ chain[1].previousBlockHash = Null
         /\ chain[1].body = EncodeBody(GenesisData)
    /\ last.op = "constructor" => Len(chain) = 1 /\ height = 0
    /\ last.op = "getChainHeight" => last.result >= 0

C3_Witness ==
    /\ last.op = "constructor"
    /\ Constructed
    /\ Len(chain) = 1

\* C4: on a ledger changed only by construction and public operations,
\* validateChain returns the empty sequence.
C4_UntamperedValid ==
    /\ vc.errorLog = <<>>
    /\ last.op = "validateChain" => last.result = <<>>

C4_Witness ==
    /\ last.op = "validateChain"
    /\ last.result = <<>>
    /\ Len(chain) = 3

\* C5: tamper detection - every block (the genesis block included) that did
\* not match its own hash when validateChain was called is in its result.
C5_TamperDetected ==
    last.op = "validateChain" => last.bad \subseteq Range(last.result)

\* C6: re-hashed tampering is caught by linkage - a block that matched its
\* own hash but did not carry the hash of the block before it when
\* validateChain was called is in the result.
C6_LinkageDetected ==
    last.op = "validateChain" =>
        (last.unlinked \ last.bad) \subseteq Range(last.result)

\* C7: validateChain does not self-heal - no step of validateChain changes
\* any field of a stored block, the chain length or the height.
C7_NoSelfHeal ==
    [][ValidateResume => (chain' = chain /\ height' = height)]_vars

C9_Expired ==
    [][( /\ last'.op = "submitStar"
         /\ Len(last'.message) >= 2
         /\ _currentTimestamp(clockMs) - last'.message[2]
                >= ALLOWED_TIME_TO_SIGN_SECONDS + 1
         /\ SubmitCalled )
       => /\ last'.result = Expired
          /\ chain' = chain
          /\ height' = height
      ]_vars

C9_Witness ==
    /\ last.op = "submitStar"
    /\ last.result = Expired
    /\ last.message \in issued
    /\ _currentTimestamp(clockMs) - last.message[2] = ALLOWED_TIME_TO_SIGN_SECONDS + 1
    /\ Len(chain) = 2

\* C10: invalid-signature rejection - a submit with a well-formed token that
\* has not expired, for which the signature primitive returns false, returns
\* 'Invalid signature!' and leaves the chain and the height as they were.
C10_InvalidSignature ==
    [][( /\ last'.op = "submitStar"
         /\ Len(last'.message) >= 2
         /\ _isValidTime(parseTimestamp(last'.message), clockMs)
         /\ bitcoinMessageVerify(last'.message, last'.address,
                                 last'.signature) = "false"
         /\ SubmitCalled )
       => /\ last'.result = InvalidSignature
          /\ chain' = chain
          /\ height' = height
      ]_vars

C10_Witness ==
    /\ last.op = "submitStar"
    /\ last.result = InvalidSignature
    /\ last.message \in issued
    /\ Len(chain) = 2

\* C11: primitive failure is normalized - a submit with a well-formed token
\* that has not expired, for which the signature primitive raises an
\* exception, settles with 'Invalid signature!' (not with a rejected promise)
\* and leaves the chain and the height as they were.
C11_PrimitiveFailureNormalized ==
    [][( /\ last'.op = "submitStar"
         /\ Len(last'.message) >= 2
         /\ _isValidTime(parseTimestamp(last'.message), clockMs)
         /\ bitcoinMessageVerify(last'.message, last'.address,
                                 last'.signature) = "throws"
         /\ SubmitCalled )
       => /\ last'.result = InvalidSignature
          /\ chain' = chain
          /\ height' = height
      ]_vars

\* positions 1.. of the blocks whose decoded owner is address
OwnedPositions(ch, address) ==
    {i \in 1..(Len(ch) - 1) : ch[i + 1].body[2].owner = address}

\* r lists the stars of the blocks at OwnedPositions, lowest position first
IsItemsOf(r, ch, address) ==
    LET S == OwnedPositions(ch, address)
    IN  /\ Len(r) = Cardinality(S)
        /\ \A i \in S :
             r[Cardinality({j \in S : j <= i})] = ch[i + 1].body[2].star

\* C12: getStarsByWalletAddress(address) returns exactly the stars of the
\* blocks owned by address, oldest first, nothing of the genesis block, the
\* empty sequence for an address that owns no block, and changes nothing.
C12_StarsByOwner ==
    [][( /\ last'.op = "getStarsByWalletAddress"
         /\ GetStarsByWalletAddress )
       => /\ IsItemsOf(last'.result, chain, last'.address)
          /\ (OwnedPositions(chain, last'.address) = {} => last'.result = <<>>)
          /\ chain' = chain
          /\ height' = height
      ]_vars

C12_Witness ==
    /\ last.op = "getStarsByWalletAddress"
    /\ Len(chain) = 3
    /\ Len(last.result) = 2
    /\ last.result[1] # last.result[2]
    /\ last.result[1] = chain[2].body[2].star

\* C13: check ordering - a submit whose token has expired and whose signature
\* does not verify returns 'Time has expired!', and the signature primitive
\* is not invoked for it.
C13_TimeBeforeSignature ==
    [][( /\ last'.op = "submitStar"
         /\ ~_isValidTime(parseTimestamp(last'.message), clockMs)
         /\ bitcoinMessageVerify(last'.message, last'.address,
                                 last'.signature) # "true"
         /\ SubmitCalled )
       => /\ last'.result = Expired
          /\ ~last'.verifyCalled
      ]_vars

C13_Witness ==
    /\ last.op = "submitStar"
    /\ last.message \in issued
    /\ ~_isValidTime(parseTimestamp(last.message), clockMs)
    /\ bitcoinMessageVerify(last.message, last.address, last.signature) = "false"
    /\ last.result = Expired
    /\ ~last.verifyCalled

SubmitSucceeded ==
    /\ last'.op = "submitStar"
    /\ last'.result.isValid
    /\ SubmitCalled

\* C15: appends are serialized - whatever the order in which the calls run,
\* also between the awaits of a suspended validateChain, every successful
\* submit extends the chain by exactly one block and overwrites none, the
\* height is the index of the last block, no two blocks have the same
\* position, and position and linkage are intact.
C15_AppendsSerialized ==
    [][ /\ SubmitSucceeded =>
             /\ Len(chain') = Len(chain) + 1
             /\ SubSeq(chain', 1, Len(chain)) = chain
        /\ Len(chain') = height' + 1
        /\ \A i, j \in 1..Len(chain') :
             i # j => chain'[i].height # chain'[j].height
        /\ \A i \in 1..Len(chain') :
             /\ chain'[i].height = i - 1
             /\ i > 1 => chain'[i].previousBlockHash = chain'[i - 1].hash
      ]_vars

C15_Witness ==
    /\ last.op = "submitStar"
    /\ last.result.isValid
    /\ last.again
    /\ last.during
    /\ Len(chain) = 3
    /\ chain[2].height = 1
    /\ chain[3].height = 2

\* C16: readers see a consistent snapshot - in every state a read can run in,
\* the height is the index of the last block and every stored block has its
\* hash; and a validateChain returns what an uninterrupted validateChain of
\* the chain as it was at the call (before any append made while it was
\* suspended) returns.
C16_ConsistentSnapshot ==
    /\ Constructed =>
         /\ Len(chain) = height + 1
         /\ \A j \in 1..Len(chain) : chain[j] # Undefined /\ chain[j].hash # Null
    /\ vc.pc = "awaiting" => vc.i < Len(chain)
    /\ last.op = "validateChain" => last.result = last.atomic

C16_Witness ==
    /\ vc.pc = "awaiting"
    /\ vc.i = 1
    /\ vc.snap.atomic # <<>>
    /\ last.op = "submitStar"
    /\ last.result.isValid
    /\ last.during

\* C17: append-only - across every step the chain before is a prefix of the
\* chain after, the height does not decrease, and the chain or the height
\* change only in the constructor and in a successful submit.
C17_AppendOnly ==
    [][ /\ Len(chain') >= Len(chain)
        /\ SubSeq(chain', 1, Len(chain)) = chain
        /\ height' >= height
        /\ (chain' # chain \/ height' # height) =>
             (last'.op = "constructor" \/ SubmitSucceeded)
      ]_vars

C17_Witness ==
    /\ last.op = "submitStar"
    /\ last.result = InvalidSignature
    /\ last.during
    /\ Len(chain) = 3

\* C18: stateless redemption - a submit succeeds exactly when its token is
\* inside the window and its signature verifies, whatever was submitted
\* before; the call that has just succeeded, made again inside the window,
\* succeeds again and appends a further block at the next position.
C18_Stateless ==
    [][( /\ last'.op = "submitStar"
         /\ SubmitCalled )
       => /\ last'.result.isValid <=>
               ( /\ _isValidTime(parseTimestamp(last'.message), clockMs)
                 /\ bitcoinMessageVerify(last'.message, last'.address,
                                         last'.signature) = "true" )
          /\ ( /\ last'.again
               /\ _isValidTime(parseTimestamp(last'.message), clockMs) )
             => /\ last'.result.isValid
                /\ Len(chain') = Len(chain) + 1
                /\ chain'[Len(chain')].height = chain[Len(chain)].height + 1
                /\ chain'[Len(chain')] # chain[Len(chain)]
      ]_vars

C18_Witness ==
    /\ last.op = "submitStar"
    /\ last.again
    /\ last.result.isValid
    /\ last.message \in issued
    /\ Len(chain) = 3
    /\ chain[2].body[2].owner = last.address
    /\ chain[3].body[2].owner = last.address

\* C19 (as claimed): token binding - a submit appends a block only if its
\* token was issued by requestMessageOwnershipVerification and embeds the
\* submitting address.
C19_TokenBinding ==
    [][SubmitSucceeded =>
         /\ last'.message \in issued
         /\ last'.message[1] = last'.address
      ]_vars

\* C19 (amended): signature binding - a submit appends a block exactly when
\* its token is inside the window and its signature verifies for the
\* submitting address over the presented token, and the owner recorded in the
\* block is the submitting address.
C19_SignatureBinding ==
    [][( /\ last'.op = "submitStar"
         /\ SubmitCalled )
       => /\ chain' # chain <=>
               ( /\ _isValidTime(parseTimestamp(last'.message), clockMs)
                 /\ bitcoinMessageVerify(last'.message, last'.address,
                                         last'.signature) = "true" )
          /\ chain' # chain =>
               getBData(chain'[Len(chain')]).owner = last'.address
      ]_vars

C19_Witness ==
    /\ last.op = "submitStar"
    /\ last.result.isValid
    /\ last.message \notin issued
    /\ last.message[1] # last.address
    /\ getBData(chain[Len(chain)]).owner = last.address

\* C20: idempotent validation - a validateChain that directly follows another
\* validateChain, with no call in between, returns the same sequence.
C20_Idempotent ==
    (last.op = "validateChain" /\ last.prev # <<>>) => last.result = last.prev[1]
====
